---- MODULE Spec2Model ----
(***************************************************************************)
(* Chat-driven movie recommendation backend.                               *)
(*                                                                         *)
(* Strings the code inspects character by character (message texts,        *)
(* signal values, genre fields) are sequences of one-character strings, so *)
(* that String.includes, the regular expressions, Number() and SQL LIKE    *)
(* are computed rather than assumed.  Accented letters of the genre labels *)
(* are written without the accent (Accion for the label of "action").      *)
(* confidence is kept in tenths: 6 = 0.6, 9 = 0.9, 10 = 1.0.               *)
(*                                                                         *)
(* A handler is cut at the awaited statements that write: the steps before *)
(* its first INSERT or upsert only read rows that no route deletes.  An    *)
(* awaited write may reject, which the catch block answers with 500.       *)
(* created_at order is insertion order.  GetRecommendations only reads and *)
(* is one step.  resp holds the response written by the step just taken;   *)
(* Flush sends it off before the next step, so every stored state is seen  *)
(* both with and without each response that can be written in it.          *)
(*                                                                         *)
(* The signup route writes users and app_accounts inside one transaction:  *)
(* a row carries the transaction that wrote it (txn) until commit sets it  *)
(* to 0, and rollback removes the rows of its transaction.                 *)
(***************************************************************************)
EXTENDS Integers, Sequences, FiniteSets, TLC

VARIABLES
    variant,    \* which copy of the chat routes serves: "auth" (JWT) or "open"
    sessions,   \* chat_sessions rows; session_id is the index
    messages,   \* chat_messages rows in creation order; message_id is the index
    signals,    \* chat_signals rows in creation order
    ratings,    \* ratings rows
    procs,      \* requests suspended at a storage round trip
    resp,       \* the response sent last
    text,       \* input of a direct call of extractSignals
    users,          \* users rows; txn = 0 is committed, else the transaction that wrote it
    app_accounts    \* app_accounts rows, with txn as in users

vars == <<variant, sessions, messages, signals, ratings, procs, resp, text,
          users, app_accounts>>

----------------------------------------------------------------------------
(* Character-level string primitives *)

Upper == <<"A","B","C","D","E","F","G","H","I","J","K","L","M",
           "N","O","P","Q","R","S","T","U","V","W","X","Y","Z">>

Lower == <<"a","b","c","d","e","f","g","h","i","j","k","l","m",
           "n","o","p","q","r","s","t","u","v","w","x","y","z">>

Digits == <<"0","1","2","3","4","5","6","7","8","9">>

\* String.prototype.toLowerCase, one character
toLowerChar(c) ==
    IF \E i \in DOMAIN Upper : Upper[i] = c
    THEN Lower[CHOOSE i \in DOMAIN Upper : Upper[i] = c]
    ELSE c

\* String.prototype.toLowerCase
toLowerCase(s) == [i \in DOMAIN s |-> toLowerChar(s[i])]

\* \s of a regular expression
IsSpace(c) == c \in {" ", "\t", "\n"}

\* \d of a regular expression
IsDigit(c) == \E i \in DOMAIN Digits : Digits[i] = c

\* pat occurs in s at position i, compared exactly
ExactAt(s, i, pat) ==
    /\ i >= 1
    /\ i + Len(pat) - 1 <= Len(s)
    /\ \A k \in 1..Len(pat) : s[i + k - 1] = pat[k]

\* the lowercase pattern pat occurs in s at position i under the /i flag
MatchAt(s, i, pat) ==
    /\ i >= 1
    /\ i + Len(pat) - 1 <= Len(s)
    /\ \A k \in 1..Len(pat) : toLowerChar(s[i + k - 1]) = pat[k]

\* String.prototype.includes
includes(s, key) == \E i \in 1..(Len(s) + 1) : ExactAt(s, i, key)

\* /(^|\s)(a1|a2|...)(\s|$)/i.test(s)
WordTest(s, alts) ==
    \E i \in 1..Len(s) : \E a \in alts :
        /\ i = 1 \/ IsSpace(s[i - 1])
        /\ MatchAt(s, i, a)
        /\ i + Len(a) = Len(s) + 1 \/ IsSpace(s[i + Len(a)])

\* start of the digits when /kw\s+(\d{4})/i matches with kw at position i, else 0
YearAt(s, i, kw) ==
    IF ~MatchAt(s, i, kw) THEN 0
    ELSE LET from == i + Len(kw)
             j == CHOOSE j \in from..(Len(s) + 1) :
                     /\ \A k \in from..(j - 1) : IsSpace(s[k])
                     /\ j = Len(s) + 1 \/ ~IsSpace(s[j])
         IN  IF /\ j > from
                /\ j + 3 <= Len(s)
                /\ \A k \in j..(j + 3) : IsDigit(s[k])
             THEN j ELSE 0

\* s.match(/kw\s+(\d{4})/i): <<>> for null, else <<capture group 1>>
match(s, kw) ==
    LET hits == {i \in 1..Len(s) : YearAt(s, i, kw) > 0}
    IN  IF hits = {} THEN <<>>
        ELSE LET i == CHOOSE i \in hits : \A h \in hits : i <= h
                 j == YearAt(s, i, kw)
             IN  <<SubSeq(s, j, j + 3)>>

\* a || b || c over match results
FirstMatch(ms) ==
    IF \E i \in DOMAIN ms : ms[i] # <<>>
    THEN ms[CHOOSE i \in DOMAIN ms : ms[i] # <<>> /\ \A k \in 1..(i - 1) : ms[k] = <<>>]
    ELSE <<>>

----------------------------------------------------------------------------
(* extractSignals *)

Variants == {"auth", "open"}

\* the genre table of each copy of the chat routes
genreMap(v) ==
    IF v = "auth" THEN
      << [key |-> <<"a","c","t","i","o","n">>,
          value |-> <<"A","c","c","i","o","n">>],
         [key |-> <<"s","c","i","-","f","i">>,
          value |-> <<"C","i","e","n","c","i","a"," ","f","i","c","c","i","o","n">>],
         [key |-> <<"s","c","i","e","n","c","e"," ","f","i","c","t","i","o","n">>,
          value |-> <<"C","i","e","n","c","i","a"," ","f","i","c","c","i","o","n">>],
         [key |-> <<"c","o","m","e","d","y">>,
          value |-> <<"C","o","m","e","d","i","a">>],
         [key |-> <<"d","r","a","m","a">>,
          value |-> <<"D","r","a","m","a">>],
         [key |-> <<"t","h","r","i","l","l","e","r">>,
          value |-> <<"T","h","r","i","l","l","e","r">>],
         [key |-> <<"r","o","m","a","n","c","e">>,
          value |-> <<"R","o","m","a","n","c","e">>],
         [key |-> <<"a","n","i","m","a","t","i","o","n">>,
          value |-> <<"A","n","i","m","a","c","i","o","n">>],
         [key |-> <<"a","d","v","e","n","t","u","r","e">>,
          value |-> <<"A","v","e","n","t","u","r","a","s">>] >>
    ELSE
      << [key |-> <<"a","c","t","i","o","n">>,
          value |-> <<"A","c","t","i","o","n">>],
         [key |-> <<"s","c","i","-","f","i">>,
          value |-> <<"S","c","i","-","F","i">>],
         [key |-> <<"s","c","i","e","n","c","e"," ","f","i","c","t","i","o","n">>,
          value |-> <<"S","c","i","-","F","i">>],
         [key |-> <<"c","o","m","e","d","y">>,
          value |-> <<"C","o","m","e","d","y">>],
         [key |-> <<"r","o","m","a","n","c","e">>,
          value |-> <<"R","o","m","a","n","c","e">>],
         [key |-> <<"h","o","r","r","o","r">>,
          value |-> <<"H","o","r","r","o","r">>],
         [key |-> <<"d","r","a","m","a">>,
          value |-> <<"D","r","a","m","a">>],
         [key |-> <<"t","h","r","i","l","l","e","r">>,
          value |-> <<"T","h","r","i","l","l","e","r">>],
         [key |-> <<"a","n","i","m","a","t","i","o","n">>,
          value |-> <<"A","n","i","m","a","t","i","o","n">>] >>

\* const like = /(^|\s)(like|love|enjoy|prefer)(\s|$)/i.test(original)
like(original) ==
    WordTest(original, { <<"l","i","k","e">>, <<"l","o","v","e">>,
                         <<"e","n","j","o","y">>, <<"p","r","e","f","e","r">> })

\* const dislike = /(^|\s)(dislike|hate|don't like|do not like)(\s|$)/i.test(original)
dislike(original) ==
    WordTest(original, { <<"d","i","s","l","i","k","e">>, <<"h","a","t","e">>,
                         <<"d","o","n","'","t"," ","l","i","k","e">>,
                         <<"d","o"," ","n","o","t"," ","l","i","k","e">> })

\* the loop with the tests swapped: a like marker wins over a dislike marker
genreSignalsLikeFirst(v, original) ==
    LET t == toLowerCase(original)
        gm == genreMap(v)
        hit == SelectSeq(gm, LAMBDA g : includes(t, g.key))
    IN  [i \in DOMAIN hit |->
            [signal_type |-> IF like(original) \/ ~dislike(original)
                             THEN "like_genre" ELSE "dislike_genre",
             signal_value |-> hit[i].value,
             confidence |-> IF like(original) \/ dislike(original) THEN 9 ELSE 6]]

\* the loop over genreMap: one signal per key the lowercased text includes
genreSignals(v, original) ==
    LET t == toLowerCase(original)
        gm == genreMap(v)
        hit == SelectSeq(gm, LAMBDA g : includes(t, g.key))
    IN  [i \in DOMAIN hit |->
            [signal_type |-> IF dislike(original) THEN "dislike_genre" ELSE "like_genre",
             signal_value |-> hit[i].value,
             confidence |-> IF like(original) \/ dislike(original) THEN 9 ELSE 6]]

\* afterMatch: after, then since, then from
afterMatch(original) ==
    FirstMatch(<< match(original, <<"a","f","t","e","r">>),
                  match(original, <<"s","i","n","c","e">>),
                  match(original, <<"f","r","o","m">>) >>)

\* beforeMatch: before, then until
beforeMatch(original) ==
    FirstMatch(<< match(original, <<"b","e","f","o","r","e">>),
                  match(original, <<"u","n","t","i","l">>) >>)

\* the year_min and year_max signals pushed after the genre signals
yearSignals(original) ==
    (IF afterMatch(original) # <<>>
     THEN << [signal_type |-> "year_min", signal_value |-> afterMatch(original)[1],
              confidence |-> 10] >>
     ELSE <<>>)
    \o
    (IF beforeMatch(original) # <<>>
     THEN << [signal_type |-> "year_max", signal_value |-> beforeMatch(original)[1],
              confidence |-> 10] >>
     ELSE <<>>)

\* extractSignals returning the pushed signals unfiltered
removeDuplicatesSkipped(sigs) == sigs

\* signals.filter with the seen set: keep the first signal of each (type, value)
removeDuplicates(sigs) ==
    LET keep == {i \in DOMAIN sigs :
                    \A k \in 1..(i - 1) :
                        ~(/\ sigs[k].signal_type = sigs[i].signal_type
                          /\ sigs[k].signal_value = sigs[i].signal_value)}
        F[i \in 0..Len(sigs)] ==
            IF i = 0 THEN <<>>
            ELSE IF i \in keep THEN Append(F[i - 1], sigs[i]) ELSE F[i - 1]
    IN  F[Len(sigs)]

\* function extractSignals(text); an absent text is the empty text
extractSignals(v, txt) ==
    removeDuplicates(genreSignals(v, txt) \o yearSignals(txt))

----------------------------------------------------------------------------
(* Inputs of the model *)

\* user ids of the users table
Users == {1, 2}

\* linked_user_id of the token, or user_id of the body; 0 stands for an absent one
Callers == Users \cup {0}

\* session ids a request may name
SessionIds == {1, 2}

\* handlers that may be suspended at the same time
Procs == {1, 2}

\* chat_messages rows the model lets the handlers insert
MaxMessages == 2

\* words per text in the direct calls of extractSignals
MaxWords == 3

\* words the texts of the direct calls are made of ("do not" counts as one)
Vocabulary ==
    { <<"l","i","k","e">>, <<"h","a","t","e">>, <<"d","o","n","'","t">>,
      <<"d","i","s","l","i","k","e">>, <<"d","o"," ","n","o","t">>,
      <<"A","c","t","i","o","n">>, <<"r","e","a","c","t","i","o","n","s">>,
      <<"s","c","i","-","f","i">>, <<"s","c","i","e","n","c","e">>,
      <<"f","i","c","t","i","o","n">>,
      <<"a","f","t","e","r">>, <<"b","e","f","o","r","e">>, <<"2","0","1","5">> }

\* words joined by single spaces
RECURSIVE Join(_)
Join(ws) ==
    IF Len(ws) = 0 THEN <<>>
    ELSE IF Len(ws) = 1 THEN ws[1]
    ELSE ws[1] \o <<" ">> \o Join(Tail(ws))

\* texts of the direct calls of extractSignals
Texts == {Join(ws) : ws \in UNION {[1..n -> Vocabulary] : n \in 0..MaxWords}}

\* message texts the chat requests carry; <<>> is a missing or empty message
ChatTexts ==
    { <<>>,
      <<"I"," ","l","i","k","e"," ","a","c","t","i","o","n">>,
      <<"s","c","i","-","f","i"," ","s","i","n","c","e"," ","2","0","1","5">> }

----------------------------------------------------------------------------
(* Session and message routes *)

Idle == [pc |-> "idle"]

\* the row with this session_id, as the SELECT of every chat handler returns it
SelectSession(sid) == IF sid \in DOMAIN sessions THEN <<sessions[sid]>> ELSE <<>>

\* res.status(st).json(body) of a handler
Respond(op, req, st, body) ==
    resp' = [op |-> op, req |-> req, status |-> st, body |-> body]

\* POST /sessions
CreateSession(uid) ==
    LET req == [user_id |-> uid]
    IN  /\ IF uid = 0
           THEN /\ Respond("CreateSession", req, 400, [message |-> "user_id is required"])
                /\ UNCHANGED sessions
           ELSE /\ Len(sessions) < Cardinality(SessionIds)
                /\ sessions' = Append(sessions, [user_id |-> uid])
                /\ Respond("CreateSession", req, 201, [session_id |-> Len(sessions) + 1])
        /\ UNCHANGED <<variant, messages, signals, ratings, procs, text, users, app_accounts>>

\* chat_messages rows stored or about to be stored by a suspended handler
MessagesClaimed ==
    Len(messages) + Cardinality({p \in Procs : procs[p].pc = "insertMessage"})

\* the handler without step 2, the comparison of the session's user_id with the caller
PostMessageBeginUnchecked(p, sid, uid, message) ==
    LET req == [session_id |-> sid, user_id |-> uid, message |-> message]
        s == SelectSession(sid)
    IN  /\ procs[p].pc = "idle"
        /\ IF uid = 0 \/ message = <<>>
           THEN /\ Respond("PostMessage", req, 400, [message |-> "message is required"])
                /\ UNCHANGED procs
           ELSE IF s = <<>>
           THEN /\ Respond("PostMessage", req, 404, [message |-> "Session not found"])
                /\ UNCHANGED procs
           ELSE /\ MessagesClaimed < MaxMessages
                /\ procs' = [procs EXCEPT ![p] = [pc |-> "insertMessage", req |-> req]]
                /\ UNCHANGED resp
        /\ UNCHANGED <<variant, sessions, messages, signals, ratings, text, users, app_accounts>>

\* POST /sessions/:sessionId/messages up to the first INSERT
PostMessageBegin(p, sid, uid, message) ==
    LET req == [session_id |-> sid, user_id |-> uid, message |-> message]
        s == SelectSession(sid)
    IN  /\ procs[p].pc = "idle"
        /\ IF uid = 0 \/ message = <<>>
           THEN /\ Respond("PostMessage", req, 400, [message |-> "message is required"])
                /\ UNCHANGED procs
           ELSE IF s = <<>>
           THEN /\ Respond("PostMessage", req, 404, [message |-> "Session not found"])
                /\ UNCHANGED procs
           ELSE IF s[1].user_id # uid
           THEN /\ Respond("PostMessage", req, 403,
                           [message |-> "Session does not belong to user"])
                /\ UNCHANGED procs
           ELSE /\ MessagesClaimed < MaxMessages
                /\ procs' = [procs EXCEPT ![p] = [pc |-> "insertMessage", req |-> req]]
                /\ UNCHANGED resp
        /\ UNCHANGED <<variant, sessions, messages, signals, ratings, text, users, app_accounts>>

\* the rows of the bulk INSERT INTO chat_signals
SignalRows(req, messageId, sigs) ==
    [i \in DOMAIN sigs |->
        [session_id |-> req.session_id, user_id |-> req.user_id,
         message_id |-> messageId, signal_type |-> sigs[i].signal_type,
         signal_value |-> sigs[i].signal_value, confidence |-> sigs[i].confidence]]

\* INSERT INTO chat_messages, then extractSignals; responds when nothing was extracted
PostMessageInsertMessage(p) ==
    /\ procs[p].pc = "insertMessage"
    /\ LET req == procs[p].req
           messageId == Len(messages) + 1
           sigs == extractSignals(variant, req.message)
       IN  /\ messages' = Append(messages,
                  [session_id |-> req.session_id, user_id |-> req.user_id,
                   role |-> "user", content |-> req.message])
           /\ IF Len(sigs) = 0
              THEN /\ procs' = [procs EXCEPT ![p] = Idle]
                   /\ Respond("PostMessage", req, 201,
                              [message_id |-> messageId, inserted_signals |-> sigs])
              ELSE /\ procs' = [procs EXCEPT ![p] =
                          [pc |-> "insertSignals", req |-> req,
                           message_id |-> messageId, sigs |-> sigs]]
                   /\ UNCHANGED resp
    /\ UNCHANGED <<variant, sessions, signals, ratings, text, users, app_accounts>>

\* the bulk INSERT INTO chat_signals and the 201 response
PostMessageInsertSignals(p) ==
    /\ procs[p].pc = "insertSignals"
    /\ LET pr == procs[p]
       IN  /\ signals' = signals \o SignalRows(pr.req, pr.message_id, pr.sigs)
           /\ Respond("PostMessage", pr.req, 201,
                      [message_id |-> pr.message_id, inserted_signals |-> pr.sigs])
    /\ procs' = [procs EXCEPT ![p] = Idle]
    /\ UNCHANGED <<variant, sessions, messages, ratings, text, users, app_accounts>>

\* a bulk INSERT that keeps its first row when it rejects
PostMessageFailKeepsFirstRow(p) ==
    /\ procs[p].pc \in {"insertMessage", "insertSignals"}
    /\ signals' = IF procs[p].pc = "insertSignals"
                  THEN signals \o SubSeq(SignalRows(procs[p].req, procs[p].message_id,
                                                    procs[p].sigs), 1, 1)
                  ELSE signals
    /\ Respond("PostMessage", procs[p].req, 500, [error |-> "storage"])
    /\ procs' = [procs EXCEPT ![p] = Idle]
    /\ UNCHANGED <<variant, sessions, messages, ratings, text, users, app_accounts>>

\* an awaited INSERT rejects: the catch block answers 500
PostMessageFail(p) ==
    /\ procs[p].pc \in {"insertMessage", "insertSignals"}
    /\ Respond("PostMessage", procs[p].req, 500, [error |-> "storage"])
    /\ procs' = [procs EXCEPT ![p] = Idle]
    /\ UNCHANGED <<variant, sessions, messages, signals, ratings, text, users, app_accounts>>

\* the rows of SELECT ... FROM chat_messages WHERE session_id=? ORDER BY created_at ASC
SelectMessages(sid) ==
    LET ids == SelectSeq([i \in DOMAIN messages |-> i],
                         LAMBDA i : messages[i].session_id = sid)
    IN  [k \in DOMAIN ids |->
            [message_id |-> ids[k], role |-> messages[ids[k]].role,
             content |-> messages[ids[k]].content]]

\* whether GET /sessions/:sessionId/messages checks the session and its owner
ListMessagesChecksOwner == variant = "auth"

\* GET /sessions/:sessionId/messages
ListMessages(sid, uid) ==
    LET req == [session_id |-> sid, user_id |-> uid]
        s == SelectSession(sid)
    IN  /\ IF ListMessagesChecksOwner /\ s = <<>>
           THEN Respond("ListMessages", req, 404, [message |-> "Session not found"])
           ELSE IF ListMessagesChecksOwner /\ s[1].user_id # uid
           THEN Respond("ListMessages", req, 403, [message |-> "Forbidden"])
           ELSE Respond("ListMessages", req, 200, [rows |-> SelectMessages(sid)])
        /\ UNCHANGED <<variant, sessions, messages, signals, ratings, procs, text, users, app_accounts>>

\* a direct call of extractSignals
ExtractCall ==
    /\ resp.op = "none"
    /\ Respond("extractSignals", [text |-> text], 200,
               [signals |-> extractSignals(variant, text)])
    /\ UNCHANGED <<variant, sessions, messages, signals, ratings, procs, text, users, app_accounts>>

----------------------------------------------------------------------------
(* Movie catalog *)

\* rows of the movies table
NumMovies == 52

MovieIds == 1..NumMovies

\* movies.rate in tenths; movies 1 and 2 share the highest rate
rate(m) == IF m <= 2 THEN 95 ELSE 95 - m

\* movies.year_published
year_published(m) == 2008 + (m % 3) * 6

\* movies.genres, a delimited string
genres(m) ==
    CASE m % 5 = 1 -> <<"A","c","c","i","o","n",","," ","D","r","a","m","a">>
      [] m % 5 = 2 -> <<"C","o","m","e","d","i","a">>
      [] m % 5 = 3 -> <<"A","c","c","i","o","n",","," ","C","o","m","e","d","i","a">>
      [] m % 5 = 4 -> <<"C","i","e","n","c","i","a"," ","f","i","c","c","i","o","n">>
      [] OTHER     -> <<"M","e","l","o","d","r","a","m","a">>

\* col LIKE '%g%' under the case-insensitive collation MySQL gives a text column
LIKE(col, g) == includes(toLowerCase(col), toLowerCase(g))

\* the labels a signal value can be, in either genre table
Labels == {genreMap(v)[i].value : v \in Variants, i \in 1..9}

\* for each movie, the labels g with m.genres LIKE '%g%'
GenresLike == [m \in MovieIds |-> {g \in Labels : LIKE(genres(m), g)}]

\* the orders ORDER BY rate DESC may return the rows of ms in: rows of equal rate
\* come in any order, the statement names no second key
RECURSIVE OrderByRateDesc(_)
OrderByRateDesc(ms) ==
    IF ms = {} THEN {<<>>}
    ELSE UNION { {<<m>> \o rest : rest \in OrderByRateDesc(ms \ {m})} :
                 m \in {x \in ms : \A y \in ms : rate(y) <= rate(x)} }

\* the orders of the whole catalog
CatalogOrders == OrderByRateDesc(MovieIds)

\* a query whose LIMIT clause is lost
LimitDropped(rows, n) == rows

\* LIMIT n of a result
Limit(rows, n) == SubSeq(rows, 1, IF n < Len(rows) THEN n ELSE Len(rows))

\* the results SELECT ... FROM movies [WHERE ...] ORDER BY rate DESC LIMIT n may
\* give, the rows the WHERE clause keeps being those of kept
SelectMovies(kept, n) ==
    {Limit(SelectSeq(order, LAMBDA m : m \in kept), n) : order \in CatalogOrders}

----------------------------------------------------------------------------
(* GET /sessions/:sessionId/recommendations *)

\* Number(s) for an optional minus sign and decimal digits; anything else is NaN
Number(s) ==
    LET neg == Len(s) > 0 /\ s[1] = "-"
        ds == IF neg THEN Tail(s) ELSE s
        val[i \in 0..Len(ds)] ==
            IF i = 0 THEN 0
            ELSE 10 * val[i - 1] + (CHOOSE d \in 0..9 : Digits[d + 1] = ds[i])
    IN  IF Len(s) = 0 THEN [nan |-> FALSE, n |-> 0]
        ELSE IF Len(ds) = 0 \/ \E i \in DOMAIN ds : ~IsDigit(ds[i])
        THEN [nan |-> TRUE, n |-> 0]
        ELSE [nan |-> FALSE, n |-> IF neg THEN 0 - val[Len(ds)] ELSE val[Len(ds)]]

\* the default of req.query.limit
DefaultLimit == 20

\* the cap on req.query.limit
LimitCap == 50

\* const limit = Math.min(Number(req.query.limit || 20), 50); q = <<>> is an absent limit
ParseLimit(q) ==
    LET x == IF q = <<>> THEN [nan |-> FALSE, n |-> DefaultLimit] ELSE Number(q)
    IN  IF x.nan THEN x
        ELSE [nan |-> FALSE, n |-> IF x.n < LimitCap THEN x.n ELSE LimitCap]

\* MySQL rejects LIMIT NaN and a negative LIMIT: the awaited query throws
LimitAccepted(limit) == ~limit.nan /\ limit.n >= 0

\* the rows of SELECT signal_type, signal_value FROM chat_signals WHERE session_id=?
SelectSignals(sid) == SelectSeq(signals, LAMBDA r : r.session_id = sid)

\* the values of the rows of one signal type, in row order
ValuesOf(sigRows, type) ==
    LET rows == SelectSeq(sigRows, LAMBDA r : r.signal_type = type)
    IN  [i \in DOMAIN rows |-> rows[i].signal_value]

\* a fold that keeps the first year it meets instead of the last
LastYearKeepsFirst(sigRows, type) ==
    LET vs == ValuesOf(sigRows, type)
    IN  IF Len(vs) = 0 THEN <<>> ELSE <<Number(vs[1]).n>>

\* the year a loop over sigRows leaves in yearMin or yearMax: <<>> is null
LastYear(sigRows, type) ==
    LET vs == ValuesOf(sigRows, type)
    IN  IF Len(vs) = 0 THEN <<>> ELSE <<Number(vs[Len(vs)]).n>>

\* step 3, "Parse signals"
ParseSignals(sigRows) ==
    [likeGenres |-> ValuesOf(sigRows, "like_genre"),
     dislikeGenres |-> ValuesOf(sigRows, "dislike_genre"),
     yearMin |-> LastYear(sigRows, "year_min"),
     yearMax |-> LastYear(sigRows, "year_max")]

\* JavaScript truthiness of yearMin and yearMax: null and 0 are falsy
Truthy(y) == y # <<>> /\ y[1] # 0

\* if (!likeGenres.length && !yearMin && !yearMax)
ColdStart(basis) ==
    /\ Len(basis.likeGenres) = 0
    /\ ~Truthy(basis.yearMin)
    /\ ~Truthy(basis.yearMax)

\* NOT EXISTS (SELECT 1 FROM ratings r WHERE r.user_id = ? AND r.movie_id = m.movie_id)
NotRatedBy(uid, m) == ~\E r \in ratings : r.user_id = uid /\ r.movie_id = m

\* the WHERE clause of step 4
Where(basis, uid, m) ==
    /\ Truthy(basis.yearMin) => year_published(m) >= basis.yearMin[1]
    /\ Truthy(basis.yearMax) => year_published(m) <= basis.yearMax[1]
    /\ Len(basis.likeGenres) > 0 =>
          \E i \in DOMAIN basis.likeGenres : basis.likeGenres[i] \in GenresLike[m]
    /\ \A i \in DOMAIN basis.dislikeGenres : basis.dislikeGenres[i] \notin GenresLike[m]
    /\ NotRatedBy(uid, m)

\* the movie lists the handler may answer with; rows are named by movie_id
RecommendedMovies(basis, uid, n) ==
    IF ColdStart(basis)
    THEN SelectMovies(MovieIds, n)
    ELSE SelectMovies({m \in MovieIds : Where(basis, uid, m)}, n)

\* the handler without the comparison of the session's user_id with the caller
GetRecommendationsUnchecked(sid, uid, q) ==
    LET req == [session_id |-> sid, user_id |-> uid, limit |-> q]
        limit == ParseLimit(q)
        s == SelectSession(sid)
        basis == ParseSignals(SelectSignals(sid))
    IN  /\ variant = "auth"
        /\ IF uid = 0
           THEN Respond("GetRecommendations", req, 400,
                        [message |-> "Account not linked_user_id"])
           ELSE IF s = <<>>
           THEN Respond("GetRecommendations", req, 404, [message |-> "Session not found"])
           ELSE IF ~LimitAccepted(limit)
           THEN Respond("GetRecommendations", req, 500, [error |-> "storage"])
           ELSE \E movies \in RecommendedMovies(basis, uid, limit.n) :
                   Respond("GetRecommendations", req, 200,
                           [basis |-> basis, movies |-> movies])
        /\ UNCHANGED <<variant, sessions, messages, signals, ratings, procs, text, users, app_accounts>>

\* GET /sessions/:sessionId/recommendations
GetRecommendations(sid, uid, q) ==
    LET req == [session_id |-> sid, user_id |-> uid, limit |-> q]
        limit == ParseLimit(q)
        s == SelectSession(sid)
        basis == ParseSignals(SelectSignals(sid))
    IN  /\ variant = "auth"
        /\ IF uid = 0
           THEN Respond("GetRecommendations", req, 400,
                        [message |-> "Account not linked_user_id"])
           ELSE IF s = <<>>
           THEN Respond("GetRecommendations", req, 404, [message |-> "Session not found"])
           ELSE IF s[1].user_id # uid
           THEN Respond("GetRecommendations", req, 403, [message |-> "Forbidden"])
           ELSE IF ~LimitAccepted(limit)
           THEN Respond("GetRecommendations", req, 500, [error |-> "storage"])
           ELSE \E movies \in RecommendedMovies(basis, uid, limit.n) :
                   Respond("GetRecommendations", req, 200,
                           [basis |-> basis, movies |-> movies])
        /\ UNCHANGED <<variant, sessions, messages, signals, ratings, procs, text, users, app_accounts>>

\* the client sends the request it was just answered once more
GetRecommendationsAgain ==
    /\ resp.op = "GetRecommendations"
    /\ GetRecommendations(resp.req.session_id, resp.req.user_id, resp.req.limit)

----------------------------------------------------------------------------
(* POST /api/ratings *)

\* SELECT movie_id FROM movies WHERE movie_id=?
SelectMovie(mid) == IF mid \in MovieIds THEN <<mid>> ELSE <<>>

\* POST /api/ratings up to the upsert; mid = 0 is an absent movie_id and
\* rs = <<>> an absent rating_score
PostRatingBegin(p, uid, mid, rs) ==
    LET req == [user_id |-> uid, movie_id |-> mid, rating_score |-> rs]
        score == Number(rs)
    IN  /\ procs[p].pc = "idle"
        /\ IF uid = 0
           THEN /\ Respond("PostRating", req, 400, [message |-> "Account not linked_user_id"])
                /\ UNCHANGED procs
           ELSE IF mid = 0 \/ rs = <<>>
           THEN /\ Respond("PostRating", req, 400,
                           [message |-> "movie_id and rating_score are required"])
                /\ UNCHANGED procs
           ELSE IF score.nan \/ score.n < 1 \/ score.n > 10
           THEN /\ Respond("PostRating", req, 400, [message |-> "rating_score must be 1..10"])
                /\ UNCHANGED procs
           ELSE IF SelectMovie(mid) = <<>>
           THEN /\ Respond("PostRating", req, 404, [message |-> "Movie not found"])
                /\ UNCHANGED procs
           ELSE /\ procs' = [procs EXCEPT ![p] =
                       [pc |-> "upsert", req |-> req, score |-> score.n]]
                /\ UNCHANGED resp
        /\ UNCHANGED <<variant, sessions, messages, signals, ratings, text, users, app_accounts>>

\* a plain INSERT on a table without the (user_id, movie_id) key
UpsertInsertOnly(rows, uid, mid, score) ==
    rows \cup {[user_id |-> uid, movie_id |-> mid, rating_score |-> score]}

\* INSERT INTO ratings ... ON DUPLICATE KEY UPDATE rating_score = VALUES(rating_score):
\* one statement, on the table's (user_id, movie_id) key
Upsert(rows, uid, mid, score) ==
    {r \in rows : ~(r.user_id = uid /\ r.movie_id = mid)}
        \cup {[user_id |-> uid, movie_id |-> mid, rating_score |-> score]}

\* the upsert and the 201 response
PostRatingUpsert(p) ==
    /\ procs[p].pc = "upsert"
    /\ LET pr == procs[p]
       IN  /\ ratings' = Upsert(ratings, pr.req.user_id, pr.req.movie_id, pr.score)
           /\ Respond("PostRating", pr.req, 201,
                      [message |-> "Rating saved", user_id |-> pr.req.user_id,
                       movie_id |-> pr.req.movie_id, rating_score |-> pr.score])
    /\ procs' = [procs EXCEPT ![p] = Idle]
    /\ UNCHANGED <<variant, sessions, messages, signals, text, users, app_accounts>>

\* the awaited upsert rejects: the catch block answers 500
PostRatingFail(p) ==
    /\ procs[p].pc = "upsert"
    /\ Respond("PostRating", procs[p].req, 500, [error |-> "storage"])
    /\ procs' = [procs EXCEPT ![p] = Idle]
    /\ UNCHANGED <<variant, sessions, messages, signals, ratings, text, users, app_accounts>>

-----------------------------------------------------------------------------
(* POST /api/auth/signup *)

\* /^\S+@\S+\.\S+$/.test(email)
isValidEmail(email) ==
    /\ \A i \in DOMAIN email : ~IsSpace(email[i])
    /\ \E i, j \in DOMAIN email :
          /\ email[i] = "@"
          /\ email[j] = "."
          /\ 1 < i
          /\ i + 1 < j
          /\ j < Len(email)

\* SELECT account_id FROM app_accounts WHERE email = ? LIMIT 1, read outside a
\* transaction: it sees committed rows
SelectAccount(email) ==
    SelectSeq(app_accounts, LAMBDA r : r.txn = 0 /\ r.email = email)

\* POST /signup up to beginTransaction; <<>> is an absent email or password, and
\* JWT_SECRET is set
SignupBegin(p, email, password) ==
    LET req == [email |-> email, password |-> password]
    IN  /\ procs[p].pc = "idle"
        /\ IF email = <<>> \/ password = <<>>
           THEN /\ Respond("Signup", req, 400, [message |-> "email and password are required"])
                /\ UNCHANGED procs
           ELSE IF ~isValidEmail(email)
           THEN /\ Respond("Signup", req, 400, [message |-> "Invalid email format"])
                /\ UNCHANGED procs
           ELSE IF Len(password) < 6
           THEN /\ Respond("Signup", req, 400,
                           [message |-> "Password must be at least 6 characters"])
                /\ UNCHANGED procs
           ELSE IF SelectAccount(email) # <<>>
           THEN /\ Respond("Signup", req, 409, [message |-> "Email already exists"])
                /\ UNCHANGED procs
           ELSE /\ procs' = [procs EXCEPT ![p] = [pc |-> "beginTransaction", req |-> req]]
                /\ UNCHANGED resp
        /\ UNCHANGED <<variant, sessions, messages, signals, ratings, text, users, app_accounts>>

\* the transaction of p holds the lock of SELECT ... FROM users FOR UPDATE, from
\* that read to its commit or rollback
HoldsLock(p) == procs[p].pc \in {"insertUser", "insertAccount", "commit"}

\* IFNULL(MAX(user_id), 0) + 1
NewUserId ==
    LET ids == {users[i].user_id : i \in DOMAIN users}
    IN  IF ids = {} THEN 1 ELSE (CHOOSE m \in ids : \A k \in ids : k <= m) + 1

\* beginTransaction and SELECT ... FOR UPDATE, which waits for the lock
SignupSelectNewUserId(p) ==
    /\ procs[p].pc = "beginTransaction"
    /\ \A q \in Procs : ~HoldsLock(q)
    /\ procs' = [procs EXCEPT ![p] =
           [pc |-> "insertUser", req |-> procs[p].req, new_user_id |-> NewUserId]]
    /\ UNCHANGED <<variant, sessions, messages, signals, ratings, resp, text, users, app_accounts>>

\* INSERT INTO users (user_id, ...) VALUES (new_user_id, ...)
SignupInsertUser(p) ==
    /\ procs[p].pc = "insertUser"
    /\ users' = Append(users, [user_id |-> procs[p].new_user_id, txn |-> p])
    /\ procs' = [procs EXCEPT ![p].pc = "insertAccount"]
    /\ UNCHANGED <<variant, sessions, messages, signals, ratings, resp, text, app_accounts>>

\* conn.rollback(): the rows the transaction wrote are gone
Rollback(rows, p) == SelectSeq(rows, LAMBDA r : r.txn # p)

\* conn.commit(): the rows the transaction wrote are committed
Commit(rows, p) ==
    [i \in DOMAIN rows |-> IF rows[i].txn = p THEN [rows[i] EXCEPT !.txn = 0] ELSE rows[i]]

\* app_accounts without its unique keys
DuplicateEntryNever(email, uid) == FALSE

\* ER_DUP_ENTRY of the INSERT INTO app_accounts: duplicate email or linked_user_id
DuplicateEntry(email, uid) ==
    \E i \in DOMAIN app_accounts :
        app_accounts[i].email = email \/ app_accounts[i].linked_user_id = uid

\* bcrypt.hash and INSERT INTO app_accounts; ER_DUP_ENTRY ends in the catch block,
\* which rolls back and answers 409
SignupInsertAccount(p) ==
    /\ procs[p].pc = "insertAccount"
    /\ LET pr == procs[p]
       IN  IF DuplicateEntry(pr.req.email, pr.new_user_id)
           THEN /\ users' = Rollback(users, p)
                /\ app_accounts' = Rollback(app_accounts, p)
                /\ procs' = [procs EXCEPT ![p] = Idle]
                /\ Respond("Signup", pr.req, 409, [message |-> "Email already exists"])
           ELSE /\ app_accounts' = Append(app_accounts,
                       [email |-> pr.req.email, role |-> "user",
                        linked_user_id |-> pr.new_user_id, txn |-> p])
                /\ procs' = [procs EXCEPT ![p].pc = "commit"]
                /\ UNCHANGED <<users, resp>>
    /\ UNCHANGED <<variant, sessions, messages, signals, ratings, text>>

\* conn.commit() and the 201 response
SignupCommit(p) ==
    /\ procs[p].pc = "commit"
    /\ users' = Commit(users, p)
    /\ app_accounts' = Commit(app_accounts, p)
    /\ Respond("Signup", procs[p].req, 201,
               [email |-> procs[p].req.email, role |-> "user",
                linked_user_id |-> procs[p].new_user_id])
    /\ procs' = [procs EXCEPT ![p] = Idle]
    /\ UNCHANGED <<variant, sessions, messages, signals, ratings, text>>

\* an awaited statement of the transaction rejects: the catch block rolls back
\* and answers 500
SignupFail(p) ==
    /\ procs[p].pc \in {"beginTransaction", "insertUser", "insertAccount", "commit"}
    /\ users' = Rollback(users, p)
    /\ app_accounts' = Rollback(app_accounts, p)
    /\ Respond("Signup", procs[p].req, 500, [error |-> "storage"])
    /\ procs' = [procs EXCEPT ![p] = Idle]
    /\ UNCHANGED <<variant, sessions, messages, signals, ratings, text>>

----------------------------------------------------------------------------
(* Specifications *)

NoResp == [op |-> "none", req |-> <<>>, status |-> 0, body |-> <<>>]

InitStore ==
    /\ sessions = <<>>
    /\ messages = <<>>
    /\ signals = <<>>
    /\ procs = [p \in Procs |-> Idle]
    /\ resp = NoResp

\* no signup has happened
NoAccounts ==
    /\ users = <<>>
    /\ app_accounts = <<>>

\* the chat routes of either copy, on an empty store
Init ==
    /\ InitStore
    /\ NoAccounts
    /\ variant \in Variants
    /\ ratings = {}
    /\ text = <<>>

\* the response written in one turn of the event loop leaves before the next turn
Flush ==
    /\ resp # NoResp
    /\ resp' = NoResp
    /\ UNCHANGED <<variant, sessions, messages, signals, ratings, procs, text, users, app_accounts>>

Quiet == resp = NoResp

Next ==
    \/ Quiet /\ \E uid \in Callers : CreateSession(uid)
    \/ Quiet /\ \E p \in Procs, sid \in SessionIds, uid \in Callers, m \in ChatTexts :
                  PostMessageBegin(p, sid, uid, m)
    \/ Quiet /\ \E p \in Procs : PostMessageInsertMessage(p)
    \/ Quiet /\ \E p \in Procs : PostMessageInsertSignals(p)
    \/ Quiet /\ \E p \in Procs : PostMessageFail(p)
    \/ Quiet /\ \E sid \in SessionIds, uid \in Callers : ListMessages(sid, uid)
    \/ Flush

Spec == Init /\ [][Next]_vars

\* extractSignals called directly on every bounded text
InitExtract ==
    /\ InitStore
    /\ NoAccounts
    /\ variant \in Variants
    /\ ratings = {}
    /\ text \in Texts

NextExtract == ExtractCall

SpecExtract == InitExtract /\ [][NextExtract]_vars

\* req.query.limit values: absent, not a number, negative, zero, small, above the cap
LimitInputs == { <<>>, <<"a","b","c">>, <<"-","1">>, <<"0">>, <<"2">>, <<"6","0">> }

\* message texts of the recommendation runs: a liked genre with a lower year bound,
\* a disliked genre, both year bounds, and an upper bound whose digits are 0000
RecTexts ==
    { <<"l","i","k","e"," ","a","c","t","i","o","n"," ","s","i","n","c","e"," ","2","0","1","5">>,
      <<"h","a","t","e"," ","c","o","m","e","d","y">>,
      <<"f","r","o","m"," ","2","0","1","0"," ","u","n","t","i","l"," ","2","0","1","4">>,
      <<"b","e","f","o","r","e"," ","0","0","0","0">> }

\* ratings tables the recommendation runs start from
RatingTables ==
    { {},
      {[user_id |-> 1, movie_id |-> 1, rating_score |-> 8],
       [user_id |-> 2, movie_id |-> 3, rating_score |-> 5]} }

\* the authenticated routes with recommendations, one chat handler at a time
InitRec ==
    /\ InitStore
    /\ NoAccounts
    /\ variant = "auth"
    /\ ratings \in RatingTables
    /\ text = <<>>

NextRec ==
    \/ Quiet /\ \E uid \in Users : CreateSession(uid)
    \/ Quiet /\ \E sid \in SessionIds, uid \in Users, m \in RecTexts :
                  PostMessageBegin(1, sid, uid, m)
    \/ Quiet /\ PostMessageInsertMessage(1)
    \/ Quiet /\ PostMessageInsertSignals(1)
    \/ Quiet /\ \E sid \in SessionIds, uid \in Callers, q \in LimitInputs :
                  GetRecommendations(sid, uid, q)
    \/ GetRecommendationsAgain
    \/ Flush

SpecRec == InitRec /\ [][NextRec]_vars

\* movie_id values of the rating requests: absent, two catalog rows, no row
RatedMovieInputs == {0, 1, 2, 999}

\* rating_score values of the rating requests
ScoreInputs == { <<>>, <<"0">>, <<"3">>, <<"1","0">>, <<"1","1">>, <<"a","b","c">> }

\* the ratings route under concurrent requests, on an empty ratings table
InitRatings ==
    /\ InitStore
    /\ NoAccounts
    /\ variant = "auth"
    /\ ratings = {}
    /\ text = <<>>

NextRatings ==
    \/ Quiet /\ \E p \in Procs, uid \in Callers, mid \in RatedMovieInputs, rs \in ScoreInputs :
                  PostRatingBegin(p, uid, mid, rs)
    \/ Quiet /\ \E p \in Procs : PostRatingUpsert(p)
    \/ Quiet /\ \E p \in Procs : PostRatingFail(p)
    \/ Flush

SpecRatings == InitRatings /\ [][NextRatings]_vars

\* req.body.email values: absent, without a dot, and two valid addresses
EmailInputs ==
    { <<>>, <<"a","@","b">>, <<"a","@","b",".","c">>, <<"d","@","b",".","c">> }

\* req.body.password values: absent, five characters, six characters
PasswordInputs ==
    { <<>>, <<"1","2","3","4","5">>, <<"1","2","3","4","5","6">> }

\* users rows that were imported with the data set and have no account
ImportedUsers == {1}

\* the signup route under concurrent requests, on a users table that is empty or
\* holds the imported rows
InitSignup ==
    /\ InitStore
    /\ variant = "auth"
    /\ ratings = {}
    /\ text = <<>>
    /\ users \in { <<>>, <<[user_id |-> 1, txn |-> 0]>> }
    /\ app_accounts = <<>>

NextSignup ==
    \/ Quiet /\ \E p \in Procs, email \in EmailInputs, password \in PasswordInputs :
                  SignupBegin(p, email, password)
    \/ Quiet /\ \E p \in Procs : SignupSelectNewUserId(p)
    \/ Quiet /\ \E p \in Procs : SignupInsertUser(p)
    \/ Quiet /\ \E p \in Procs : SignupInsertAccount(p)
    \/ Quiet /\ \E p \in Procs : SignupCommit(p)
    \/ Quiet /\ \E p \in Procs : SignupFail(p)
    \/ Flush

SpecSignup == InitSignup /\ [][NextSignup]_vars

----------------------------------------------------------------------------
(* Properties of the chat routes, checked under Spec *)

\* the request answered last named an existing session and a user who does not own it
AnsweredNonOwner(op) ==
    /\ resp.op = op
    /\ resp.req.session_id \in DOMAIN sessions
    /\ resp.req.user_id \in Users
    /\ sessions[resp.req.session_id].user_id # resp.req.user_id

\* C1 as stated: whenever PostMessage answers a caller who is not the owner of the
\* existing session, whatever the message content, the answer is 403 Forbidden and
\* the step stores no message and no signal.
C1_ForbiddenForEveryContent ==
    [][ (resp' # resp /\ AnsweredNonOwner("PostMessage")')
            => /\ resp'.status = 403
               /\ messages' = messages
               /\ signals' = signals ]_vars

\* C1 as amended: whenever PostMessage answers a caller who is not the owner of the
\* existing session, the answer is 403 Forbidden when the message content is not
\* empty and 400 bad request when it is empty or missing; in both cases the step
\* stores no message and no signal and leaves no handler that would store one.
C1_ForbiddenOrBadRequest ==
    [][ (resp' # resp /\ AnsweredNonOwner("PostMessage")')
            => /\ resp'.status = (IF resp'.req.message = <<>> THEN 400 ELSE 403)
               /\ messages' = messages
               /\ signals' = signals
               /\ procs' = procs ]_vars

\* a non-owner was answered 403 while messages and signals were stored
C1_Witness ==
    /\ AnsweredNonOwner("PostMessage")
    /\ resp.status = 403
    /\ resp.req.message # <<>>
    /\ Len(messages) > 0
    /\ Len(signals) > 0

\* C3: no two signals stored for the same session have the same signal type and
\* the same signal value.
C3_NoDuplicateSignalsInSession ==
    \A i, j \in DOMAIN signals :
        (i < j /\ signals[i].session_id = signals[j].session_id)
            => ~(/\ signals[i].signal_type = signals[j].signal_type
                 /\ signals[i].signal_value = signals[j].signal_value)

\* the message_ids of the stored messages of a session
MessageIdsOf(sid) == {i \in DOMAIN messages : messages[i].session_id = sid}

\* C7: ListMessages on an existing session answers a user who is not its owner with
\* 403 Forbidden and no message rows, and answers the owner with exactly the
\* messages of the session, oldest first.
C7_ListMessagesOwnerOnly ==
    (/\ resp.op = "ListMessages"
     /\ resp.req.session_id \in DOMAIN sessions
     /\ resp.req.user_id \in Users)
        => IF sessions[resp.req.session_id].user_id # resp.req.user_id
           THEN /\ resp.status = 403
                /\ "rows" \notin DOMAIN resp.body
           ELSE /\ resp.status = 200
                /\ LET rows == resp.body.rows
                   IN  /\ {rows[k].message_id : k \in DOMAIN rows}
                              = MessageIdsOf(resp.req.session_id)
                       /\ \A k \in DOMAIN rows :
                              /\ rows[k].content = messages[rows[k].message_id].content
                              /\ \A l \in DOMAIN rows :
                                    k < l => rows[k].message_id < rows[l].message_id

\* the stored signals of message mid, as (type, value, confidence), in row order
StoredSignalsOf(mid) ==
    LET rows == SelectSeq(signals, LAMBDA r : r.message_id = mid)
    IN  [i \in DOMAIN rows |->
            [signal_type |-> rows[i].signal_type,
             signal_value |-> rows[i].signal_value,
             confidence |-> rows[i].confidence]]

\* the output of extractSignals for every message text a request carries
ExtractorOutput ==
    [v \in Variants |-> [t \in ChatTexts \cup RecTexts |-> extractSignals(v, t)]]

\* C16: in every reachable state, after a failed INSERT and under interleaving
\* too, the signals stored for a message are none or the whole output of the
\* extractor for the content of that message, every stored signal names a stored
\* user message of its own session, and a PostMessage that failed returns no list
\* of inserted signals.
C16_SignalsAllOrNothing ==
    /\ \A mid \in DOMAIN messages :
          \/ StoredSignalsOf(mid) = <<>>
          \/ StoredSignalsOf(mid) = ExtractorOutput[variant][messages[mid].content]
    /\ \A i \in DOMAIN signals :
          /\ signals[i].message_id \in DOMAIN messages
          /\ messages[signals[i].message_id].role = "user"
          /\ messages[signals[i].message_id].session_id = signals[i].session_id
    /\ (resp.op = "PostMessage" /\ resp.status # 201)
          => "inserted_signals" \notin DOMAIN resp.body

\* a PostMessage failed at the bulk INSERT: its message is stored without any of
\* its two signals, next to a message stored with its whole extractor output
C16_Witness ==
    /\ resp.op = "PostMessage"
    /\ resp.status = 500
    /\ \E mid, other \in DOMAIN messages :
          /\ messages[mid].content = resp.req.message
          /\ messages[mid].session_id = resp.req.session_id
          /\ StoredSignalsOf(mid) = <<>>
          /\ Len(ExtractorOutput[variant][messages[mid].content]) = 2
          /\ other # mid
          /\ StoredSignalsOf(other) # <<>>

----------------------------------------------------------------------------
(* Properties of extractSignals, checked under SpecExtract *)

\* the indices of the genre table whose key the lowercased text includes
KeysIncluded(v, txt) ==
    {i \in DOMAIN genreMap(v) : includes(toLowerCase(txt), genreMap(v)[i].key)}

\* C8: the list one call of extractSignals returns holds no two signals of the same
\* type and value, and when the text includes two keys of the same label the list
\* holds exactly one signal for that label.
C8_ExtractedSignalsDistinct ==
    resp.op = "extractSignals"
        => LET out == resp.body.signals
               ks == KeysIncluded(variant, text)
           IN  /\ \A i, j \in DOMAIN out :
                      i < j => ~(/\ out[i].signal_type = out[j].signal_type
                                 /\ out[i].signal_value = out[j].signal_value)
               /\ \A k1, k2 \in ks :
                      (/\ k1 # k2
                       /\ genreMap(variant)[k1].value = genreMap(variant)[k2].value)
                          => Cardinality({i \in DOMAIN out :
                                 out[i].signal_value = genreMap(variant)[k1].value}) = 1

\* a text with the keys "sci-fi" and "science fiction" gave one signal
C8_Witness ==
    /\ resp.op = "extractSignals"
    /\ {2, 3} \subseteq KeysIncluded(variant, text)
    /\ Len(resp.body.signals) = 1

\* the marker, a word or words joined by one space, stands in txt between
\* whitespace or the ends of the text, in any letter case
WholeWord(txt, marker) ==
    LET t == toLowerCase(txt)
    IN  \E i \in 1..Len(t) :
            /\ i + Len(marker) - 1 <= Len(t)
            /\ SubSeq(t, i, i + Len(marker) - 1) = marker
            /\ i = 1 \/ t[i - 1] = " "
            /\ i + Len(marker) - 1 = Len(t) \/ t[i + Len(marker)] = " "

NegativeMarkers ==
    { <<"d","i","s","l","i","k","e">>, <<"h","a","t","e">>,
      <<"d","o","n","'","t"," ","l","i","k","e">>,
      <<"d","o"," ","n","o","t"," ","l","i","k","e">> }

PositiveMarkers ==
    { <<"l","i","k","e">>, <<"l","o","v","e">>, <<"e","n","j","o","y">>,
      <<"p","r","e","f","e","r">> }

\* the genre signals of the list extractSignals returned
GenreSignalsOf(out) ==
    {out[i] : i \in {j \in DOMAIN out :
                        out[j].signal_type \in {"like_genre", "dislike_genre"}}}

\* C15: when a negative marker (dislike, hate, don't like, do not like) stands in
\* the text as a whole word, with or without a positive marker, every genre signal
\* is dislike_genre with confidence 0.9; with only a positive marker every genre
\* signal is like_genre with 0.9; with no marker, like_genre with 0.6.
C15_NegativeMarkerWins ==
    resp.op = "extractSignals"
        => LET neg == \E m \in NegativeMarkers : WholeWord(text, m)
               pos == \E m \in PositiveMarkers : WholeWord(text, m)
               type == IF neg THEN "dislike_genre" ELSE "like_genre"
               conf == IF neg \/ pos THEN 9 ELSE 6
           IN  \A s \in GenreSignalsOf(resp.body.signals) :
                   s.signal_type = type /\ s.confidence = conf

\* "like ... hate" or "don't like" with a genre gave a dislike_genre signal
C15_Witness ==
    /\ resp.op = "extractSignals"
    /\ \E m \in NegativeMarkers : WholeWord(text, m)
    /\ \E m \in PositiveMarkers : WholeWord(text, m)
    /\ \E s \in GenreSignalsOf(resp.body.signals) :
          s.signal_type = "dislike_genre" /\ s.confidence = 9

----------------------------------------------------------------------------
(* Properties of the recommendations, checked under SpecRec *)

\* GetRecommendations answered last, with 200
Recommended == resp.op = "GetRecommendations" /\ resp.status = 200

\* the limit a request asks for: 20 when it names none
RequestedLimit(q) == IF q = <<>> THEN DefaultLimit ELSE Number(q).n

\* a movie list in non-increasing rate order
RateDescending(movies) ==
    \A i, j \in DOMAIN movies : i < j => rate(movies[i]) >= rate(movies[j])

\* C2: when the session has at least one stored signal, of any type, no movie
\* GetRecommendations returns to the owner has a rating record by the owner.
C2_NeverRecommendsRated ==
    (Recommended /\ Len(SelectSignals(resp.req.session_id)) >= 1)
        => \A i \in DOMAIN resp.body.movies :
               NotRatedBy(resp.req.user_id, resp.body.movies[i])

\* C4: a GetRecommendations call repeated with the same session, user and limit,
\* with no write in between, is answered with the same basis and the same movie
\* list in the same order.
C4_RepeatedCallSameAnswer ==
    [][ (/\ resp.op = "GetRecommendations"
         /\ resp'.op = "GetRecommendations"
         /\ resp'.req = resp.req)
            => (resp'.status = resp.status /\ resp'.body = resp.body) ]_vars

\* C5: for a session without stored signals the owner gets movies in
\* non-increasing rate order, at most limit of them, and a basis with empty liked
\* and disliked lists and null yearMin and yearMax.
C5_ColdStartTopRated ==
    (Recommended /\ Len(SelectSignals(resp.req.session_id)) = 0)
        => /\ RateDescending(resp.body.movies)
           /\ Len(resp.body.movies) <= RequestedLimit(resp.req.limit)
           /\ resp.body.basis = [likeGenres |-> <<>>, dislikeGenres |-> <<>>,
                                 yearMin |-> <<>>, yearMax |-> <<>>]

\* a session without signals, asked without a limit, got 20 movies
C5_Witness ==
    /\ Recommended
    /\ Len(SelectSignals(resp.req.session_id)) = 0
    /\ resp.req.limit = <<>>
    /\ Len(resp.body.movies) = DefaultLimit
    /\ Len(signals) > 0

\* C6: GetRecommendations answers a user 404 NotFound when the session does not
\* exist and 403 Forbidden when the session has another owner; the answer then
\* holds no basis and no movie list, and the step changes no stored row.
C6_NotFoundOrForbidden ==
    [][ (/\ resp' # resp
         /\ resp'.op = "GetRecommendations"
         /\ resp'.req.user_id \in Users)
            => /\ UNCHANGED <<sessions, messages, signals, ratings, procs>>
               /\ resp'.req.session_id \notin DOMAIN sessions
                     => /\ resp'.status = 404
                        /\ DOMAIN resp'.body \cap {"basis", "movies"} = {}
               /\ (/\ resp'.req.session_id \in DOMAIN sessions
                   /\ sessions[resp'.req.session_id].user_id # resp'.req.user_id)
                     => /\ resp'.status = 403
                        /\ DOMAIN resp'.body \cap {"basis", "movies"} = {} ]_vars

\* a user asked for the recommendations of another user's session, which has signals
C6_Witness ==
    /\ AnsweredNonOwner("GetRecommendations")
    /\ resp.status = 403
    /\ Len(SelectSignals(resp.req.session_id)) > 0

\* C9: the owner's GetRecommendations with a limit that is zero, negative or not
\* a number is answered 400 bad request without a movie list; with any other limit
\* it returns at most min(limit, 50) movies, limit being 20 when none is given.
C9_LimitValidated ==
    (/\ resp.op = "GetRecommendations"
     /\ resp.req.session_id \in DOMAIN sessions
     /\ sessions[resp.req.session_id].user_id = resp.req.user_id)
        => LET q == resp.req.limit
               n == RequestedLimit(q)
           IN  IF q # <<>> /\ (Number(q).nan \/ n <= 0)
               THEN /\ resp.status = 400
                    /\ "movies" \notin DOMAIN resp.body
               ELSE /\ resp.status = 200
                    /\ Len(resp.body.movies) <= n
                    /\ Len(resp.body.movies) <= LimitCap

----------------------------------------------------------------------------
(* Properties of the ratings route, checked under SpecRatings *)

\* the ratings rows of one user and movie
RatingsOf(rows, uid, mid) == {r \in rows : r.user_id = uid /\ r.movie_id = mid}

\* POST /api/ratings answered last
RatingAnswered == resp.op = "PostRating"

\* C10: under any interleaving of rating requests, a (user, movie) pair never has
\* two rating rows; a saved rating leaves exactly one row for its pair, with the
\* score of that request, and touches no other pair; rows change only when a
\* rating is saved; and a request whose score is outside 1..10 or whose movie is
\* missing is refused without changing a row.
C10_UpsertKeepsOneRow ==
    [][ /\ \A uid \in Users, mid \in MovieIds :
              Cardinality(RatingsOf(ratings', uid, mid)) <= 1
        /\ ratings' # ratings => (RatingAnswered' /\ resp'.status = 201)
        /\ (resp' # resp /\ RatingAnswered' /\ resp'.status = 201)
              => LET uid == resp'.req.user_id
                     mid == resp'.req.movie_id
                 IN  /\ RatingsOf(ratings', uid, mid) =
                            {[user_id |-> uid, movie_id |-> mid,
                              rating_score |-> Number(resp'.req.rating_score).n]}
                     /\ ratings' \ RatingsOf(ratings', uid, mid)
                            = ratings \ RatingsOf(ratings, uid, mid)
        /\ (/\ resp' # resp
            /\ RatingAnswered'
            /\ resp'.req.user_id \in Users
            /\ resp'.req.movie_id # 0
            /\ resp'.req.rating_score # <<>>
            /\ \/ Number(resp'.req.rating_score).nan
               \/ Number(resp'.req.rating_score).n \notin 1..10
               \/ resp'.req.movie_id \notin MovieIds)
              => /\ resp'.status \in {400, 404}
                 /\ ratings' = ratings
                 /\ procs' = procs ]_vars

\* a rating was saved while another request for the same user and movie, with
\* another score, waits at its upsert
C10_Witness ==
    /\ RatingAnswered
    /\ resp.status = 201
    /\ \E p \in Procs :
          /\ procs[p].pc = "upsert"
          /\ procs[p].req.user_id = resp.req.user_id
          /\ procs[p].req.movie_id = resp.req.movie_id
          /\ procs[p].score # resp.body.rating_score

-----------------------------------------------------------------------------
(* Properties of the filtered recommendations, checked under SpecRec *)

\* the limit of a request after the cap of 50
EffectiveLimit(q) ==
    IF RequestedLimit(q) < LimitCap THEN RequestedLimit(q) ELSE LimitCap

\* movie m passes every filter the basis b sets for user uid: a year bound is set
\* when it is not null
PassesFilters(b, uid, m) ==
    /\ b.yearMin # <<>> => year_published(m) >= b.yearMin[1]
    /\ b.yearMax # <<>> => year_published(m) <= b.yearMax[1]
    /\ Len(b.likeGenres) > 0 =>
          \E i \in DOMAIN b.likeGenres : LIKE(genres(m), b.likeGenres[i])
    /\ \A i \in DOMAIN b.dislikeGenres : ~LIKE(genres(m), b.dislikeGenres[i])
    /\ ~\E r \in ratings : r.user_id = uid /\ r.movie_id = m

\* C11: when GetRecommendations does not take the cold-start path, every returned
\* movie has year >= year_min if set and year <= year_max if set, a genre field
\* with at least one liked label if any is liked and with no disliked label, and
\* no rating by the requesting user; the list is in non-increasing rate order and
\* holds the top entries of the filtered catalog, up to limit.
C11_FilteredRecommendation ==
    (Recommended /\ ~ColdStart(resp.body.basis)) =>
        LET b == resp.body.basis
            uid == resp.req.user_id
            movies == resp.body.movies
            kept == {m \in MovieIds : PassesFilters(b, uid, m)}
            n == EffectiveLimit(resp.req.limit)
        IN  /\ \A i \in DOMAIN movies : movies[i] \in kept
            /\ RateDescending(movies)
            /\ \A i, j \in DOMAIN movies : i # j => movies[i] # movies[j]
            /\ Len(movies) = IF Cardinality(kept) < n THEN Cardinality(kept) ELSE n
            /\ \A m \in kept : \A i \in DOMAIN movies :
                  (\A j \in DOMAIN movies : movies[j] # m) => rate(m) <= rate(movies[i])

\* session sid holds a stored signal of the given type
HasSignal(sid, type) ==
    \E i \in DOMAIN signals :
        signals[i].session_id = sid /\ signals[i].signal_type = type

\* C12: GetRecommendations takes the cold-start path exactly when the signals of
\* the session hold no liked genre, no year_min and no year_max signal; a session
\* with a year signal of any numeric value, 0000 included, is filtered (it gets no
\* movie the requesting user rated, and none outside its year bounds).
C12_ColdStartIffNoLikeNoYear ==
    Recommended =>
        LET sid == resp.req.session_id
            uid == resp.req.user_id
            b == resp.body.basis
            movies == resp.body.movies
            NoLikeNoYear == /\ ~HasSignal(sid, "like_genre")
                            /\ ~HasSignal(sid, "year_min")
                            /\ ~HasSignal(sid, "year_max")
        IN  /\ ColdStart(b) <=> NoLikeNoYear
            /\ ~NoLikeNoYear => \A i \in DOMAIN movies : PassesFilters(b, uid, movies[i])

\* the positions in signals of the rows of session sid with the given type
SignalPositions(sid, type) ==
    {i \in DOMAIN signals :
        signals[i].session_id = sid /\ signals[i].signal_type = type}

\* the year the basis must show for a signal type: null without such a signal,
\* else the number written in the row created last
MostRecentYear(sid, type) ==
    LET at == SignalPositions(sid, type)
    IN  IF at = {} THEN <<>>
        ELSE LET last == CHOOSE i \in at : \A j \in at : j <= i
             IN  <<Number(signals[last].signal_value).n>>

\* C13: the basis year_min (year_max) is the value of the year_min (year_max)
\* signal of the session that was created last, not the least or greatest value
\* mentioned; it is null when the session has no such signal.
C13_YearIsMostRecentSignal ==
    Recommended =>
        /\ resp.body.basis.yearMin = MostRecentYear(resp.req.session_id, "year_min")
        /\ resp.body.basis.yearMax = MostRecentYear(resp.req.session_id, "year_max")

\* a session said 2015 and then 2010 as lower bound: the basis shows 2010, which
\* is the value created last and not the greatest one
C13_Witness ==
    /\ Recommended
    /\ resp.body.basis.yearMin = <<2010>>
    /\ resp.body.basis.yearMax = <<2014>>
    /\ \E i \in SignalPositions(resp.req.session_id, "year_min") :
          Number(signals[i].signal_value).n = 2015

\* a list without a repeated entry
Distinct(list) == \A i, j \in DOMAIN list : i # j => list[i] # list[j]

\* C14: in the basis the liked and the disliked genre lists hold each canonical
\* label at most once, whatever signals are stored for the session.
C14_BasisGenresDistinct ==
    Recommended =>
        /\ Distinct(resp.body.basis.likeGenres)
        /\ Distinct(resp.body.basis.dislikeGenres)

-----------------------------------------------------------------------------
(* Properties of the signup route, checked under SpecSignup *)

\* the committed accounts linked to user id uid
AccountsLinkedTo(uid) ==
    {i \in DOMAIN app_accounts :
        app_accounts[i].txn = 0 /\ app_accounts[i].linked_user_id = uid}

\* C17: after any interleaving of concurrent signups, two with the same email
\* included, no two accounts share an email or a linked user id, every users row
\* a signup created has exactly one account linked to it, and a signup that failed
\* after its transaction began has left no users row and no account.
C17_SignupKeepsAccountsUnique ==
    /\ \A i, j \in DOMAIN app_accounts :
          i # j => /\ app_accounts[i].email # app_accounts[j].email
                   /\ app_accounts[i].linked_user_id # app_accounts[j].linked_user_id
    /\ \A i \in DOMAIN users :
          (users[i].txn = 0 /\ users[i].user_id \notin ImportedUsers)
              => Cardinality(AccountsLinkedTo(users[i].user_id)) = 1
    /\ \A i, j \in DOMAIN users : i # j => users[i].user_id # users[j].user_id
    /\ \A p \in Procs :
          procs[p].pc \in {"idle", "beginTransaction"}
              => /\ \A i \in DOMAIN users : users[i].txn # p
                 /\ \A i \in DOMAIN app_accounts : app_accounts[i].txn # p

\* two signups with the same email both passed the email check; one committed its
\* account while the other, inside its transaction, already wrote its users row
C17_Witness ==
    \E p \in Procs :
        /\ procs[p].pc = "insertAccount"
        /\ \E i \in DOMAIN app_accounts :
              app_accounts[i].txn = 0 /\ app_accounts[i].email = procs[p].req.email
        /\ \E i \in DOMAIN users : users[i].txn = p

====
